---- MODULE Spec2Model ----
(***************************************************************************)
(* Model of src/lambda_function.py: the S3-triggered lambda_handler that   *)
(* flattens a JSON document, reconciles it with the Glue catalog table     *)
(* (fetch + cast, or infer + register) and writes a Parquet artifact.      *)
(* Invocations interleave at their calls to the external services          *)
(* (Glue get_table / create_table, S3 put_object).                         *)
(***************************************************************************)
EXTENDS Integers, Sequences, FiniteSets, TLC

(***************************************************************************)
(* Bounds                                                                  *)
(***************************************************************************)
\* number of lambda_handler invocations that may be in flight or completed
NumInvocations == 2

Invocations == 1..NumInvocations

(***************************************************************************)
(* Values of a DataFrame cell.  k is the Python runtime type; a float is   *)
(* held in halves (n = 2 * value) so that 12.5 is representable; "null" is *)
(* NaN / <NA> / NaT, the value pandas gives a key missing from a row.      *)
(***************************************************************************)
Null == [k |-> "null", n |-> 0, s |-> ""]
IntV(i) == [k |-> "int", n |-> i, s |-> ""]
FltV(h) == [k |-> "float", n |-> h, s |-> ""]
BoolV(b) == [k |-> "bool", n |-> IF b THEN 1 ELSE 0, s |-> ""]
StrV(t) == [k |-> "str", n |-> 0, s |-> t]
TsV(t) == [k |-> "datetime", n |-> 0, s |-> t]

IsWhole(v) == v.k = "int" \/ (v.k = "float" /\ v.n % 2 = 0)

(***************************************************************************)
(* Strings the code edits (object keys) are sequences of characters.       *)
(***************************************************************************)
JsonExt == <<".", "j", "s", "o", "n">>
ParquetExt == <<".", "p", "a", "r", "q", "u", "e", "t">>

\* str.replace(old, new): every non-overlapping occurrence, left to right
RECURSIVE StrReplace(_, _, _)
StrReplace(str, old, new) ==
    IF Len(str) < Len(old) THEN str
    ELSE IF SubSeq(str, 1, Len(old)) = old
         THEN new \o StrReplace(SubSeq(str, Len(old) + 1, Len(str)), old, new)
         ELSE <<Head(str)>> \o StrReplace(Tail(str), old, new)

\* the character a %XX escape stands for
HexChar(a, b) ==
    CASE a = "2" /\ b = "E" -> "."
      [] a = "2" /\ b = "F" -> "/"
      [] a = "2" /\ b = "0" -> " "
      [] OTHER -> "?"

\* urllib.parse.unquote_plus: '+' is a space, %XX is the escaped character
RECURSIVE unquote_plus(_)
unquote_plus(str) ==
    IF str = <<>> THEN <<>>
    ELSE IF Head(str) = "+" THEN <<" ">> \o unquote_plus(Tail(str))
    ELSE IF Head(str) = "%" /\ Len(str) >= 3
         THEN <<HexChar(str[2], str[3])>> \o unquote_plus(SubSeq(str, 4, Len(str)))
         ELSE <<Head(str)>> \o unquote_plus(Tail(str))

\* s3_key = key.replace('.json', '.parquet')
s3_key(key) == StrReplace(key, JsonExt, ParquetExt)

(***************************************************************************)
(* pd.json_normalize(df_raw['items']): one row per element, one column per *)
(* key in first-seen order, NaN where a row lacks the key; the column's    *)
(* dtype is the one pandas gives the values.                               *)
(* A row is a sequence of [name, val] members (a JSON object).             *)
(***************************************************************************)
RECURSIVE AddNames(_, _)
AddNames(acc, row) ==
    IF row = <<>> THEN acc
    ELSE AddNames(IF \E j \in 1..Len(acc) : acc[j] = Head(row).name
                  THEN acc ELSE Append(acc, Head(row).name), Tail(row))

RECURSIVE ColumnNames(_, _)
ColumnNames(acc, rows) ==
    IF rows = <<>> THEN acc
    ELSE ColumnNames(AddNames(acc, Head(rows)), Tail(rows))

Member(row, name) ==
    IF \E j \in 1..Len(row) : row[j].name = name
    THEN row[CHOOSE j \in 1..Len(row) : row[j].name = name].val
    ELSE Null

Kinds(vals) == {vals[r].k : r \in 1..Len(vals)}

\* the dtype the DataFrame constructor gives a column of Python values
ValuesDtype(vals) ==
    IF Kinds(vals) = {"int"} THEN "int64"
    ELSE IF Kinds(vals) \subseteq {"int", "float", "null"} THEN "float64"
    ELSE IF Kinds(vals) = {"bool"} THEN "bool"
    ELSE "object"

\* a float64 column holds its integers as floats
AsFloat(v) == IF v.k = "int" THEN FltV(2 * v.n) ELSE v

MakeColumn(name, vals) ==
    [name |-> name,
     dtype |-> ValuesDtype(vals),
     vals |-> IF ValuesDtype(vals) = "float64"
              THEN [r \in 1..Len(vals) |-> AsFloat(vals[r])]
              ELSE vals]

json_normalize(rows) ==
    LET names == ColumnNames(<<>>, rows)
    IN  [c \in 1..Len(names) |->
            MakeColumn(names[c], [r \in 1..Len(rows) |-> Member(rows[r], names[c])])]

(***************************************************************************)
(* The pandas conversions cast_dataframe_to_glue_schema uses.  A column    *)
(* conversion that raises is reported as [raised |-> TRUE].                *)
(***************************************************************************)
\* the number a string literal of the modelled documents parses to
ParseNum(t) ==
    CASE t = "1000" -> IntV(1000)
      [] t = "12" -> IntV(12)
      [] t = "12.5" -> FltV(25)
      [] OTHER -> Null

IsDateLiteral(t) == t \in {"2024-01-01"}

\* pd.to_numeric(errors='coerce') on one value of an object column
ToNumericValue(v) ==
    CASE v.k = "str" -> ParseNum(v.s)
      [] v.k = "bool" -> IntV(v.n)
      [] v.k \in {"int", "float", "null"} -> v
      [] OTHER -> Null

\* pd.to_numeric(series, errors='coerce'): a numeric series is returned as
\* it is; an object series is parsed value by value, failures become NaN
to_numeric(col) ==
    IF col.dtype \in {"int64", "float64", "bool"} THEN col
    ELSE MakeColumn(col.name, [r \in 1..Len(col.vals) |-> ToNumericValue(col.vals[r])])

\* .astype('Int64'): a float that is not a whole number cannot be cast
\* safely and raises TypeError; NaN becomes <NA>
AstypeInt64(col) ==
    IF \E r \in 1..Len(col.vals) : col.vals[r].k = "float" /\ ~IsWhole(col.vals[r])
    THEN [raised |-> TRUE, col |-> col]
    ELSE [raised |-> FALSE,
          col |-> [name |-> col.name, dtype |-> "Int64",
                   vals |-> [r \in 1..Len(col.vals) |->
                               LET v == col.vals[r]
                               IN  CASE v.k = "float" -> IntV(v.n \div 2)
                                     [] v.k = "bool" -> IntV(v.n)
                                     [] OTHER -> v]]]

\* .astype(float)
AstypeFloat(col) ==
    [raised |-> FALSE,
     col |-> [name |-> col.name, dtype |-> "float64",
              vals |-> [r \in 1..Len(col.vals) |->
                          LET v == col.vals[r]
                          IN  IF v.k \in {"int", "bool"} THEN FltV(2 * v.n) ELSE v]]]

\* bool(value): NaN is truthy, zero and the empty string are falsy
Truthy(v) ==
    CASE v.k \in {"int", "float", "bool"} -> v.n # 0
      [] v.k = "str" -> v.s # ""
      [] OTHER -> TRUE

\* .astype(bool)
AstypeBool(col) ==
    [raised |-> FALSE,
     col |-> [name |-> col.name, dtype |-> "bool",
              vals |-> [r \in 1..Len(col.vals) |-> BoolV(Truthy(col.vals[r]))]]]

\* str(value)
PyStr(v) ==
    CASE v.k = "int" -> ToString(v.n)
      [] v.k = "float" -> ToString(v.n \div 2) \o (IF v.n % 2 = 0 THEN ".0" ELSE ".5")
      [] v.k = "bool" -> IF v.n = 1 THEN "True" ELSE "False"
      [] v.k = "null" -> "nan"
      [] OTHER -> v.s

\* .astype(str)
AstypeStr(col) ==
    [raised |-> FALSE,
     col |-> [name |-> col.name, dtype |-> "object",
              vals |-> [r \in 1..Len(col.vals) |-> StrV(PyStr(col.vals[r]))]]]

\* pd.to_datetime(series, errors='coerce'): a date literal parses, a number
\* is an offset from the epoch, any other string and NaN become NaT
to_datetime(col) ==
    [raised |-> FALSE,
     col |-> [name |-> col.name, dtype |-> "datetime64",
              vals |-> [r \in 1..Len(col.vals) |->
                          LET v == col.vals[r]
                          IN  IF v.k = "str" /\ IsDateLiteral(v.s) THEN TsV(v.s)
                              ELSE IF v.k = "datetime" THEN v
                              ELSE IF v.k \in {"int", "float"}
                                   THEN TsV("epoch+" \o ToString(v.n))
                              ELSE Null]]]

\* one branch of the if/elif chain of cast_dataframe_to_glue_schema; a type
\* name with no branch leaves the column as it is
CastColumn(col, dtype) ==
    CASE dtype = "bigint" -> AstypeInt64(to_numeric(col))
      [] dtype = "double" -> AstypeFloat(to_numeric(col))
      [] dtype = "boolean" -> AstypeBool(col)
      [] dtype = "string" -> AstypeStr(col)
      [] dtype = "timestamp" -> to_datetime(col)
      [] OTHER -> [raised |-> FALSE, col |-> col]

\* a Glue schema is the ordered list of [Name, Type] columns
HasColumn(glue_schema, name) ==
    \E j \in 1..Len(glue_schema) : glue_schema[j].Name = name

TypeOfColumn(glue_schema, name) ==
    glue_schema[CHOOSE j \in 1..Len(glue_schema) : glue_schema[j].Name = name].Type

\* cast_dataframe_to_glue_schema(df, glue_schema): every column named in the
\* schema is converted, the others pass through; a conversion that raises
\* aborts the whole cast
cast_dataframe_to_glue_schema(df, glue_schema) ==
    LET res == [c \in 1..Len(df) |->
                   IF HasColumn(glue_schema, df[c].name)
                   THEN CastColumn(df[c], TypeOfColumn(glue_schema, df[c].name))
                   ELSE [raised |-> FALSE, col |-> df[c]]]
    IN  [raised |-> \E c \in 1..Len(df) : res[c].raised,
         df |-> [c \in 1..Len(df) |-> res[c].col]]

\* the Glue type infer_glue_schema_from_dataframe gives a pandas dtype
GlueTypeOfDtype(dtype) ==
    CASE dtype \in {"int64", "Int64"} -> "int"
      [] dtype = "float64" -> "double"
      [] dtype = "bool" -> "boolean"
      [] dtype = "datetime64" -> "timestamp"
      [] OTHER -> "string"

infer_glue_schema_from_dataframe(df) ==
    [c \in 1..Len(df) |-> [Name |-> df[c].name, Type |-> GlueTypeOfDtype(df[c].dtype)]]

(***************************************************************************)
(* df.to_parquet: every column gets one physical type; an object column    *)
(* whose values are not all of one Python type cannot be converted and     *)
(* the call raises.                                                        *)
(***************************************************************************)
ParquetType(col) ==
    CASE col.dtype \in {"int64", "Int64"} -> "INT64"
      [] col.dtype = "float64" -> "DOUBLE"
      [] col.dtype = "bool" -> "BOOLEAN"
      [] col.dtype = "datetime64" -> "TIMESTAMP"
      [] OTHER ->
           IF Kinds(col.vals) \subseteq {"str", "null"} THEN "BYTE_ARRAY"
           ELSE IF Kinds(col.vals) \subseteq {"bool", "null"} THEN "BOOLEAN"
           ELSE "invalid"

to_parquet(df) ==
    [raised |-> \E c \in 1..Len(df) : ParquetType(df[c]) = "invalid",
     body |-> [c \in 1..Len(df) |->
                 [name |-> df[c].name, type |-> ParquetType(df[c]), vals |-> df[c].vals]]]

(***************************************************************************)
(* Environment of the function (module scope, lines 12-15) and the         *)
(* events it is invoked with.                                              *)
(***************************************************************************)
os_input_s3_cleansed_layer == "cleansed"

\* f"s3://{os_input_s3_cleansed_layer}/"
s3_location == "s3://" \o os_input_s3_cleansed_layer \o "/"

Obj(nm, v) == [name |-> nm, val |-> v]

\* the notification's (URL-escaped) object key and the document stored there
Events ==
    { [key |-> <<"a", ".", "j", "s", "o", "n">>,
       has_items |-> TRUE,
       items |-> << <<Obj("id", IntV(1)), Obj("views", StrV("1000"))>>,
                    <<Obj("id", IntV(2)), Obj("views", StrV("bad"))>> >>],
      [key |-> <<"a", "%", "2", "E", "j", "s", "o", "n">>,
       has_items |-> TRUE,
       items |-> << <<Obj("id", StrV("x")), Obj("views", FltV(25))>>,
                    <<Obj("id", IntV(7)), Obj("views", IntV(1))>> >>],
      [key |-> <<"d", ".", "j", "s", "o", "n", "/", "c", ".", "j", "s", "o", "n">>,
       has_items |-> TRUE,
       items |-> << <<Obj("id", IntV(3)), Obj("ts", StrV("2024-01-01")), Obj("ok", BoolV(TRUE))>>,
                    <<Obj("id", IntV(4)), Obj("ts", StrV("soon"))>> >>],
      [key |-> <<"c", ".", "t", "x", "t">>,
       has_items |-> FALSE,
       items |-> <<>>] }

DestKeys == {s3_key(unquote_plus(e.key)) : e \in Events}

(***************************************************************************)
(* The Glue catalog holds at most the one table the function is            *)
(* configured with; the cleansed bucket maps keys to objects.              *)
(***************************************************************************)
NoTable == [exists |-> FALSE, Columns |-> <<>>, Location |-> "", Compressed |-> FALSE]

\* the TableInput of glue_client.create_table
TableInput(location, glue_schema) ==
    [exists |-> TRUE, Columns |-> glue_schema, Location |-> location, Compressed |-> FALSE]

Col(nm, ty) == [Name |-> nm, Type |-> ty]

\* tables somebody registered before the function first ran
InitCatalogs ==
    { NoTable,
      TableInput(s3_location, <<Col("id", "bigint"), Col("views", "bigint")>>),
      TableInput(s3_location, <<Col("id", "string"), Col("views", "double"),
                                Col("ts", "timestamp"), Col("ok", "boolean")>>) }

NoObject == [present |-> FALSE, Body |-> <<>>]

\* what glue_client.get_table answers
GetTableOutcomes(cat) ==
    {"AccessDenied"} \cup (IF cat.exists THEN {"ok"} ELSE {"EntityNotFound"})

\* what glue_client.create_table answers: it never replaces a table
CreateTableOutcomes(cat) ==
    {"AccessDenied"} \cup (IF cat.exists THEN {"AlreadyExists"} ELSE {"ok"})

\* response['Table']['StorageDescriptor']['Columns'] as {Name: Type}
get_glue_table_schema(cat) == cat.Columns

VARIABLES catalog, store, inv, reg

vars == <<catalog, store, inv, reg>>

Idle ==
    [pc |-> "idle", key |-> <<>>, has_items |-> FALSE, items |-> <<>>, df |-> <<>>,
     glue_schema |-> <<>>, branch |-> "", casted |-> FALSE,
     fetch_out |-> "", reg_out |-> "", exc |-> "", s3_key |-> <<>>,
     puts |-> 0, status |-> ""]

RegOff ==
    [pc |-> "off", call |-> 0, location |-> "", glue_schema |-> <<>>,
     first |-> NoTable, exc |-> ""]

Init ==
    /\ catalog \in InitCatalogs
    /\ store = [k \in DestKeys |-> NoObject]
    /\ inv = [i \in Invocations |-> Idle]
    /\ reg = RegOff

(***************************************************************************)
(* lambda_handler                                                          *)
(***************************************************************************)
\* a handler that logs the exception and returns the response all the same
OnExceptionSwallowed(r, e) == [r EXCEPT !.pc = "done", !.exc = e, !.status = "200"]
\* except Exception as e: ... raise e
OnException(r, e) == [r EXCEPT !.pc = "failed", !.exc = e, !.status = "raised"]

\* lines 99-111: the key is unquoted, the object read, parsed and flattened
Start(i, e, out) ==
    /\ inv[i].pc = "idle"
    /\ LET r == [inv[i] EXCEPT !.key = unquote_plus(e.key),
                               !.has_items = e.has_items, !.items = e.items]
       IN  inv' = [inv EXCEPT ![i] =
                IF out # "ok" THEN OnException(r, out)
                ELSE IF ~e.has_items THEN OnException(r, "KeyError")
                ELSE [r EXCEPT !.pc = "fetch", !.df = json_normalize(e.items)]]
    /\ UNCHANGED <<catalog, store, reg>>

\* an except clause that takes every failure of the fetch for "not found"
FetchMissesAnyError(out) == out # "ok"
\* except glue_client.exceptions.EntityNotFoundException (line 118)
FetchMisses(out) == out = "EntityNotFound"

\* a handler that fetches the schema and leaves the batch as it is
FetchFoundNoCast(r, glue_schema) ==
    [r EXCEPT !.glue_schema = glue_schema, !.branch = "fetched", !.pc = "put"]
\* lines 115-117: the fetched schema is used to cast the batch
FetchFound(r, glue_schema) ==
    LET c == cast_dataframe_to_glue_schema(r.df, glue_schema)
    IN  IF c.raised
        THEN OnException([r EXCEPT !.glue_schema = glue_schema, !.branch = "fetched"],
                         "TypeError")
        ELSE [r EXCEPT !.glue_schema = glue_schema, !.branch = "fetched",
                       !.df = c.df, !.casted = TRUE, !.pc = "put"]

\* lines 119-120: the schema is inferred, registration comes next
FetchMissed(r) ==
    [r EXCEPT !.glue_schema = infer_glue_schema_from_dataframe(r.df),
              !.branch = "inferred", !.pc = "reg_get"]

\* lines 113-120: get_glue_table_schema and what follows its answer
FetchSchema(i, out) ==
    /\ inv[i].pc = "fetch"
    /\ out \in GetTableOutcomes(catalog)
    /\ LET r == [inv[i] EXCEPT !.fetch_out = out]
       IN  inv' = [inv EXCEPT ![i] =
                IF out = "ok" THEN FetchFound(r, get_glue_table_schema(catalog))
                ELSE IF FetchMisses(out) THEN FetchMissed(r)
                ELSE OnException(r, out)]
    /\ UNCHANGED <<catalog, store, reg>>

\* a registration that goes on to create_table whatever get_table answered
RegMissesAlways(out) == TRUE
\* except glue_client.exceptions.EntityNotFoundException (line 76)
RegMisses(out) == out = "EntityNotFound"

\* a registration that replaces the table it finds
table_already_existsUpdates(cat, table) == table
\* lines 74-75: the table is there, which is only reported
table_already_exists(cat, table) == cat

\* lines 79-95: the catalog after create_table succeeded
create_table(cat, table) == table

\* lines 72-76 of create_glue_table_if_not_exists, called at line 121
RegGet(i, out) ==
    /\ inv[i].pc = "reg_get"
    /\ out \in GetTableOutcomes(catalog)
    /\ LET r == [inv[i] EXCEPT !.reg_out = out]
       IN  /\ inv' = [inv EXCEPT ![i] =
                IF RegMisses(out) THEN [r EXCEPT !.pc = "reg_create"]
                ELSE IF out = "ok" THEN [r EXCEPT !.pc = "put"]
                ELSE OnException(r, out)]
           /\ catalog' = IF ~RegMisses(out) /\ out = "ok"
                         THEN table_already_exists(catalog,
                                  TableInput(s3_location, inv[i].glue_schema))
                         ELSE catalog
    /\ UNCHANGED <<store, reg>>

\* lines 79-96 of create_glue_table_if_not_exists
RegCreate(i, out) ==
    /\ inv[i].pc = "reg_create"
    /\ out \in CreateTableOutcomes(catalog)
    /\ LET r == [inv[i] EXCEPT !.reg_out = out]
       IN  /\ inv' = [inv EXCEPT ![i] =
                IF out = "ok" THEN [r EXCEPT !.pc = "put"] ELSE OnException(r, out)]
           /\ catalog' = IF out = "ok"
                         THEN create_table(catalog,
                                  TableInput(s3_location, inv[i].glue_schema))
                         ELSE catalog
    /\ UNCHANGED <<store, reg>>

\* lines 128-143: serialize, put the object, return the response
Put(i, out) ==
    /\ inv[i].pc = "put"
    /\ LET p == to_parquet(inv[i].df)
           ok == ~p.raised /\ out = "ok"
           r == [inv[i] EXCEPT !.s3_key = s3_key(inv[i].key)]
       IN  /\ inv' = [inv EXCEPT ![i] =
                IF p.raised THEN OnException(inv[i], "ArrowInvalid")
                ELSE IF out # "ok" THEN OnException(r, out)
                ELSE [r EXCEPT !.pc = "done", !.puts = @ + 1, !.status = "200"]]
           /\ store' = IF ok
                       THEN [store EXCEPT ![s3_key(inv[i].key)] =
                                [present |-> TRUE, Body |-> p.body]]
                       ELSE store
    /\ UNCHANGED <<catalog, reg>>

Next ==
    \/ \E i \in Invocations, e \in Events, out \in {"ok", "NoSuchKey"} : Start(i, e, out)
    \/ \E i \in Invocations, out \in {"ok", "EntityNotFound", "AccessDenied"} :
          FetchSchema(i, out)
    \/ \E i \in Invocations, out \in {"ok", "EntityNotFound", "AccessDenied"} :
          RegGet(i, out)
    \/ \E i \in Invocations, out \in {"ok", "AlreadyExists", "AccessDenied"} :
          RegCreate(i, out)
    \/ \E i \in Invocations, out \in {"ok", "AccessDenied"} : Put(i, out)

Spec == Init /\ [][Next]_vars

(***************************************************************************)
(* create_glue_table_if_not_exists called twice in sequence with the same  *)
(* arguments, by one caller and with nothing else touching the catalog.    *)
(***************************************************************************)
RegLocations == {s3_location, "s3://other/"}

RegSchemas ==
    {infer_glue_schema_from_dataframe(json_normalize(e.items)) : e \in Events}
        \cup {c.Columns : c \in InitCatalogs}

InitReg ==
    /\ catalog \in InitCatalogs
    /\ store = [k \in DestKeys |-> NoObject]
    /\ inv = [i \in Invocations |-> Idle]
    /\ \E loc \in RegLocations, sch \in RegSchemas :
          reg = [RegOff EXCEPT !.pc = "get", !.call = 1,
                               !.location = loc, !.glue_schema = sch]

\* the call returned: the first call is followed by the second
Returned(r, cat) ==
    IF r.call = 1 THEN [r EXCEPT !.pc = "get", !.call = 2, !.first = cat]
    ELSE [r EXCEPT !.pc = "returned"]

\* lines 72-76
RegCallGet(out) ==
    /\ reg.pc = "get"
    /\ out \in GetTableOutcomes(catalog)
    /\ catalog' = IF ~RegMisses(out) /\ out = "ok"
                  THEN table_already_exists(catalog,
                           TableInput(reg.location, reg.glue_schema))
                  ELSE catalog
    /\ reg' = IF RegMisses(out) THEN [reg EXCEPT !.pc = "create"]
              ELSE IF out = "ok" THEN Returned(reg, catalog')
              ELSE [reg EXCEPT !.pc = "raised", !.exc = out]
    /\ UNCHANGED <<store, inv>>

\* lines 79-96
RegCallCreate(out) ==
    /\ reg.pc = "create"
    /\ out \in CreateTableOutcomes(catalog)
    /\ catalog' = IF out = "ok"
                  THEN create_table(catalog, TableInput(reg.location, reg.glue_schema))
                  ELSE catalog
    /\ reg' = IF out = "ok" THEN Returned(reg, catalog')
              ELSE [reg EXCEPT !.pc = "raised", !.exc = out]
    /\ UNCHANGED <<store, inv>>

NextReg ==
    \/ \E out \in {"ok", "EntityNotFound", "AccessDenied"} : RegCallGet(out)
    \/ \E out \in {"ok", "AlreadyExists", "AccessDenied"} : RegCallCreate(out)

SpecReg == InitReg /\ [][NextReg]_vars

(***************************************************************************)
(* Properties                                                              *)
(***************************************************************************)
\* the batch as flattened from the document the invocation read
Flattened(r) == json_normalize(r.items)

\* C1: an invocation whose create_table finds the table already created by
\* another invocation treats that as a no-op: it never fails with the
\* AlreadyExists answer
C1_RaceIsTolerated ==
    \A i \in Invocations : inv[i].exc # "AlreadyExists"

\* C2: an invocation ends either with the success result and exactly one
\* object put, or raised with nothing put; before its end it has put
\* nothing, and every object in the bucket is the artifact of an invocation
\* that succeeded on that key
C2_AllOrNothing ==
    /\ \A i \in Invocations :
          /\ inv[i].pc = "done" =>
                inv[i].puts = 1 /\ inv[i].status = "200" /\ inv[i].exc = ""
                    /\ store[inv[i].s3_key].present
          /\ inv[i].pc = "failed" =>
                inv[i].puts = 0 /\ inv[i].status = "raised" /\ inv[i].exc # ""
          /\ inv[i].pc \notin {"done", "failed"} =>
                inv[i].puts = 0 /\ inv[i].status = ""
    /\ \A k \in DestKeys :
          store[k].present =>
              \E i \in Invocations :
                  /\ inv[i].pc = "done"
                  /\ inv[i].s3_key = k
                  /\ store[k].Body = to_parquet(inv[i].df).body

\* an invocation failed in the cast while the artifact an earlier invocation
\* wrote to the same destination key is in the bucket
C2_Witness ==
    \E i, j \in Invocations :
        /\ inv[i].pc = "failed" /\ inv[i].exc = "TypeError"
        /\ inv[j].pc = "done" /\ inv[j].s3_key = s3_key(inv[i].key)
        /\ store[inv[j].s3_key].Body = to_parquet(inv[j].df).body

C4_CastNeverRaises ==
    \A i \in Invocations : inv[i].exc # "TypeError"

\* the runtime type of a value is the one of the catalog type, or it is null
HasCatalogType(v, type) ==
    \/ v.k = "null"
    \/ type \in {"bigint", "int"} /\ v.k = "int"
    \/ type = "double" /\ v.k = "float"
    \/ type = "boolean" /\ v.k = "bool"
    \/ type = "string" /\ v.k = "str"
    \/ type = "timestamp" /\ v.k = "datetime"

\* C5: after the cast, every value of a column that is in the batch and in
\* the schema has the runtime type of the column's catalog type or is null
C5_CastTypes ==
    \A i \in Invocations :
        inv[i].casted =>
            \A c \in 1..Len(inv[i].df) :
                HasColumn(inv[i].glue_schema, inv[i].df[c].name) =>
                    \A r \in 1..Len(inv[i].df[c].vals) :
                        HasCatalogType(inv[i].df[c].vals[r],
                                       TypeOfColumn(inv[i].glue_schema, inv[i].df[c].name))

\* C6: "not found" from the schema fetch selects the infer-and-register
\* branch and is never the invocation's failure; an access failure of the
\* fetch or of the registration fails the invocation with that error, no
\* inference is made for a failed fetch and nothing is put
C6_NotFoundBranchesOthersFatal ==
    \A i \in Invocations :
        /\ inv[i].fetch_out = "EntityNotFound" =>
              /\ inv[i].branch = "inferred"
              /\ inv[i].exc # "EntityNotFound"
              /\ inv[i].glue_schema = infer_glue_schema_from_dataframe(Flattened(inv[i]))
              /\ inv[i].pc \in {"reg_get", "reg_create", "put", "done", "failed"}
        /\ inv[i].fetch_out = "AccessDenied" =>
              /\ inv[i].pc = "failed" /\ inv[i].exc = "AccessDenied"
              /\ inv[i].status = "raised"
              /\ inv[i].branch = "" /\ inv[i].glue_schema = <<>>
              /\ inv[i].reg_out = "" /\ inv[i].puts = 0
        /\ inv[i].reg_out = "AccessDenied" =>
              /\ inv[i].pc = "failed" /\ inv[i].exc = "AccessDenied"
              /\ inv[i].status = "raised" /\ inv[i].puts = 0

\* one invocation succeeded through the not-found branch and another failed
\* on a denied fetch
C6_Witness ==
    \E i, j \in Invocations :
        /\ inv[i].fetch_out = "EntityNotFound" /\ inv[i].pc = "done"
        /\ inv[j].fetch_out = "AccessDenied" /\ inv[j].pc = "failed"

\* C7: the second of two calls in sequence with the same arguments leaves
\* the catalog as the first call left it, and no call fails unless the
\* catalog service refused it
C7_RegistrationIdempotent ==
    /\ reg.pc = "returned" => catalog = reg.first /\ catalog.exists
    /\ reg.pc = "raised" => reg.exc = "AccessDenied"
    /\ reg.call = 2 => reg.first.exists

\* the first call created the table and the second call has returned
C7_Witness ==
    /\ reg.pc = "returned"
    /\ reg.call = 2
    /\ catalog = TableInput(reg.location, reg.glue_schema)

\* C8: a registered table is never changed by any step of any invocation
C8_NoOverwrite ==
    [][catalog.exists => catalog' = catalog]_vars

\* the table is registered and an invocation that inferred another schema
\* has been through its registration
C8_Witness ==
    /\ catalog.exists
    /\ \E i \in Invocations :
          /\ inv[i].branch = "inferred"
          /\ inv[i].pc \in {"put", "done"}
          /\ inv[i].glue_schema # catalog.Columns

\* the index of the dot that starts the extension of the last path
\* component, 0 when that component has none
ExtensionStart(key) ==
    LET dots == {j \in 1..Len(key) :
                    key[j] = "." /\ \A m \in j..Len(key) : key[m] # "/"}
    IN  IF dots = {} THEN 0 ELSE CHOOSE j \in dots : \A m \in dots : m <= j

\* the key with only its extension replaced by the columnar one
ExtensionReplaced(key) ==
    IF ExtensionStart(key) = 0 THEN key \o ParquetExt
    ELSE SubSeq(key, 1, ExtensionStart(key) - 1) \o ParquetExt

\* C9: the artifact is written to the source key with only its extension
\* replaced by the columnar extension
C9_DestinationKey ==
    \A i \in Invocations :
        inv[i].pc = "done" => inv[i].s3_key = ExtensionReplaced(inv[i].key)

\* C10: a column all of whose values parse as integers is inferred as the
\* type the Caster handles as int64, and the cast of the column against the
\* inferred schema gives an integer column
C10_IntegerInference ==
    \A i \in Invocations :
        inv[i].branch = "inferred" =>
            LET df == Flattened(inv[i])
            IN  \A c \in 1..Len(df) :
                    (\A r \in 1..Len(df[c].vals) : ToNumericValue(df[c].vals[r]).k = "int")
                    => LET type == TypeOfColumn(inv[i].glue_schema, df[c].name)
                           res == CastColumn(df[c], type)
                       IN  /\ type = "bigint"
                           /\ ~res.raised
                           /\ res.col.dtype \in {"int64", "Int64"}

====
